---- MODULE Spec2Model ----
(***************************************************************************)
(* A model of DMN_Data.py: raw_dataframe, load_data and make_dataset.      *)
(*                                                                         *)
(* A table (pandas DataFrame) is a sequence of rows; a row is a record of  *)
(* its index label (idx) and its column values.  A cell is a float64: a    *)
(* decimal m * 10^e, or NaN (what read_csv gives for an empty cell).       *)
(*                                                                         *)
(* pandas, numpy and tf.data are libraries the file calls; they are        *)
(* modelled by their documented behaviour at the lines that call them.     *)
(*                                                                         *)
(* Spec and SpecSurvey run load_data on files drawn from bounded sets: a   *)
(* first call with any arguments, then the same call repeated.  Spec       *)
(* varies the simulated file, SpecSurvey the survey file.  SpecDataset     *)
(* runs make_dataset on tables drawn from a bounded set and iterates the   *)
(* dataset.                                                                *)
(***************************************************************************)
EXTENDS Integers, Sequences, FiniteSets, TLC

\* ------------------------------------------------------------- bounds
\* Rows of Illustris_V3.csv and of NYU.csv, the largest seed a caller passes,
\* rows of a table handed to make_dataset, iterations over one dataset.
MaxRows == 2
MaxSurveyRows == 2
MaxSeed == 1
MaxDatasetRows == 2
MaxPasses == 2

\* ------------------------------------------------------------ float64
NaN == [nan |-> TRUE, m |-> 0, e |-> 0]

RECURSIVE Strip(_, _)
\* The canonical form of m * 10^e: no trailing zero in m, and 0 is 0 * 10^0.
Strip(m, e) ==
    IF m = 0 THEN [nan |-> FALSE, m |-> 0, e |-> 0]
    ELSE IF m % 10 = 0 THEN Strip(m \div 10, e + 1)
    ELSE [nan |-> FALSE, m |-> m, e |-> e]

Flt(m, e) == Strip(m, e)

RECURSIVE Pow10(_)
Pow10(k) == IF k <= 0 THEN 1 ELSE 10 * Pow10(k - 1)

Abs(i) == IF i < 0 THEN 0 - i ELSE i

RECURSIVE Digits(_)
\* The number of decimal digits of i > 0.
Digits(i) == IF i < 10 THEN 1 ELSE 1 + Digits(i \div 10)

Sign(x) == IF x.m < 0 THEN 0 - 1 ELSE IF x.m = 0 THEN 0 ELSE 1

\* The decimal order of magnitude of x # 0: 10^(Order-1) <= |x| < 10^Order.
Order(x) == x.e + Digits(Abs(x.m))

\* |a| < |b| for a, b # 0.
LtMag(a, b) ==
    IF Order(a) # Order(b) THEN Order(a) < Order(b)
    ELSE LET lo == IF a.e < b.e THEN a.e ELSE b.e
         IN  Abs(a.m) * Pow10(a.e - lo) < Abs(b.m) * Pow10(b.e - lo)

\* a < b on float64: any comparison with NaN is False.
Lt(a, b) ==
    IF a.nan \/ b.nan THEN FALSE
    ELSE IF Sign(a) # Sign(b) THEN Sign(a) < Sign(b)
    ELSE IF Sign(a) = 0 THEN FALSE
    ELSE IF Sign(a) = 1 THEN LtMag(a, b)
    ELSE LtMag(b, a)

\* a >= b on float64: any comparison with NaN is False.
Ge(a, b) == IF a.nan \/ b.nan THEN FALSE ELSE ~Lt(a, b)

\* a - b on float64: NaN when either is NaN.
Sub(a, b) ==
    IF a.nan \/ b.nan THEN NaN
    ELSE LET lo == IF a.e < b.e THEN a.e ELSE b.e
         IN  Strip(a.m * Pow10(a.e - lo) - b.m * Pow10(b.e - lo), lo)

\* a / 10**10 on float64.
DivE10(a) == IF a.nan THEN NaN ELSE Strip(a.m, a.e - 10)

\* The thresholds of load_data.
StellarCut == Flt(0, 0)
HaloCut == Flt(1, 0 - 1)
SurveyFloor == Flt(1, 0 - 7)
SurveyCeiling == Flt(150, 0)

\* ------------------------------------------------------------- tables
\* The columns of the Illustris schema that load_data reads or pops.
ILLUSTRIS_COLUMN_NAMES ==
    {"SubhaloMassInRad", "SubhaloWindMass", "SubhaloMassInRadType4"}

RECURSIVE SelectRows(_, _, _)
\* The rows of t, in order, whose index label is in keep.
SelectRows(t, keep, i) ==
    IF i > Len(t) THEN <<>>
    ELSE IF t[i].idx \in keep THEN <<t[i]>> \o SelectRows(t, keep, i + 1)
    ELSE SelectRows(t, keep, i + 1)

\* The index labels of a table: df[mask].index for the rows df[mask] (SelectSeq).
Index(t) == {t[i].idx : i \in 1..Len(t)}

\* df.drop(labels): the rows of df whose label is not among labels, in order.
Drop(t, labels) == SelectRows(t, Index(t) \ labels, 1)

\* raw_dataframe's read of one file: row i of the file gets index label i - 1
\* (the RangeIndex read_csv assigns).
ReadCsv(file) == [i \in 1..Len(file) |-> [file[i] EXCEPT !.idx = i - 1]]

VARIABLES iFile, nFile, np_random, call, pc, ret,
          features, label, dataset, cursor, pass, out

vars == <<iFile, nFile, np_random, call, pc, ret,
          features, label, dataset, cursor, pass, out>>

\* ------------------------------------------------------ random numbers
\* numpy's generator, reduced to a 16-state linear congruential generator: what
\* load_data relies on is that a seed fixes the stream and that drawing advances
\* it, not the Mersenne Twister's arithmetic.
None == 0 - 1

\* RandomState(seed): the state an integer seed initialises.
SeedState(seed) == (3 * seed + 1) % 16

\* One step of the generator.
RngNext(s) == (5 * s + 3) % 16

\* A draw from 0..hi out of state s.
Interval(s, hi) == (s * (hi + 1)) \div 16

Swap(p, i, j) ==
    [q \in 1..Len(p) |-> IF q = i THEN p[j] ELSE IF q = j THEN p[i] ELSE p[q]]

RECURSIVE Shuffle(_, _, _)
\* RandomState.shuffle (Fisher-Yates, from the last position down): the
\* permutation and the state the generator is left in.
Shuffle(p, i, s) ==
    IF i <= 1 THEN [perm |-> p, rng |-> s]
    ELSE LET s1 == RngNext(s)
             j  == Interval(s1, i - 1) + 1
         IN  Shuffle(Swap(p, i, j), i - 1, s1)

\* RandomState.choice(N, size = n, replace = False): the first n entries of a
\* permutation of the N positions.
Choice(N, n, s) ==
    LET sh == Shuffle([k \in 1..N |-> k], N, s)
    IN  [locs |-> [k \in 1..n |-> sh.perm[k]], rng |-> sh.rng]

\* round(p / q) for p >= 0 and q > 0: Python rounds a half to the even integer.
Round(p, q) ==
    LET fl == p \div q
        r  == p % q
    IN  IF 2 * r < q THEN fl
        ELSE IF 2 * r > q THEN fl + 1
        ELSE IF fl % 2 = 0 THEN fl ELSE fl + 1

\* A validation that also rejects 0 and 1.
FracRejectedClosed(frac) == frac.num <= 0 \/ frac.num >= frac.den

\* DataFrame.sample's validation of frac (replace = False): a negative frac and
\* a frac above 1 raise ValueError.
FracRejected(frac) == frac.num < 0 \/ frac.num > frac.den

\* A sample that draws from numpy's global generator as the last call left it.
SampleRngGlobal(seed, g) == np_random

\* The generator DataFrame.sample(random_state = seed) draws from: a fresh
\* RandomState(seed) for an integer seed, numpy's global one (state g) for None.
SampleRng(seed, g) == IF seed = None THEN g ELSE SeedState(seed)

\* np.random.seed(seed): the global generator's new state; seed None takes it
\* from the operating system's entropy.
GlobalSeed(seed, entropy) == IF seed = None THEN SeedState(entropy) ELSE SeedState(seed)

\* DataFrame.sample(frac = frac) on generator state s: round(frac * len) rows
\* at the chosen positions, in the order chosen.
Sample(t, frac, s) ==
    LET n == Round(frac.num * Len(t), frac.den)
        c == Choice(Len(t), n, s)
    IN  [rows |-> [k \in 1..n |-> t[c.locs[k]]], rng |-> c.rng]

\* ---------------------------------------------------------- load_data
\* The survey stellar mass left in solar masses.
ConvertSurveySkipped(t) == t

\* nData.SubhaloMassInRadType4 /= (10**10)
ConvertSurvey(t) ==
    [i \in 1..Len(t) |->
        [t[i] EXCEPT !.SubhaloMassInRadType4 = DivE10(t[i].SubhaloMassInRadType4)]]

\* The stellar mass left as loaded.
CorrectStellarSkipped(t) == t

\* iData.SubhaloMassInRadType4 -= iData.SubhaloWindMass
CorrectStellar(t) ==
    [i \in 1..Len(t) |->
        [t[i] EXCEPT !.SubhaloMassInRadType4 =
            Sub(t[i].SubhaloMassInRadType4, t[i].SubhaloWindMass)]]

\* iData.drop(iData[iData.SubhaloMassInRadType4 < 0].index)
StellCut(t) ==
    Drop(t, Index(SelectSeq(t, LAMBDA r : Lt(r.SubhaloMassInRadType4, StellarCut))))

\* iData_stell_cut.drop(iData_stell_cut[iData_stell_cut.SubhaloMassInRad < 0.1].index)
HaloCutRows(t) ==
    Drop(t, Index(SelectSeq(t, LAMBDA r : Lt(r.SubhaloMassInRad, HaloCut))))

\* The floor cut with <= for <.
SurveyStellCutInclusive(t) ==
    Drop(t, Index(SelectSeq(t, LAMBDA r : ~r.SubhaloMassInRadType4.nan
                                          /\ ~Lt(SurveyFloor, r.SubhaloMassInRadType4))))

\* nData.drop(nData[nData.SubhaloMassInRadType4 < 0.0000001].index)
SurveyStellCut(t) ==
    Drop(t, Index(SelectSeq(t, LAMBDA r : Lt(r.SubhaloMassInRadType4, SurveyFloor))))

\* nData_stell_cut.drop(nData_stell_cut[nData_stell_cut.SubhaloMassInRadType4 >= 150].index)
SurveyStellTopCut(t) ==
    Drop(t, Index(SelectSeq(t, LAMBDA r : Ge(r.SubhaloMassInRadType4, SurveyCeiling))))

\* The simulated table after the two cuts, and the survey table after its two.
FilteredSim(file) == HaloCutRows(StellCut(CorrectStellar(ReadCsv(file))))
FilteredSurvey(file) == SurveyStellTopCut(SurveyStellCut(ConvertSurvey(ReadCsv(file))))

\* The columns of a table's rows.
Columns(r) == DOMAIN r \ {"idx"}

\* A label column read in the reverse of the table's row order.
PopLabelReversed(t, c) ==
    [i \in 1..Len(t) |-> [idx |-> t[Len(t) + 1 - i].idx, val |-> t[Len(t) + 1 - i][c]]]

\* DataFrame.pop(c): the table without column c, and the column as a Series
\* (the values under the same index labels, in the same order).
PopFeatures(t, c) ==
    [i \in 1..Len(t) |-> [k \in DOMAIN t[i] \ {c} |-> t[i][k]]]

PopLabel(t, c) ==
    [i \in 1..Len(t) |-> [idx |-> t[i].idx, val |-> t[i][c]]]

\* A split by position: the rows after the first Len(train) ones.
TestRowsByPosition(halo_cut, train) == SubSeq(halo_cut, Len(train) + 1, Len(halo_cut))

\* iData_halo_cut.drop(train_features.index): the rows whose label is not one
\* of the sample's.
TestRows(halo_cut, train) == Drop(halo_cut, Index(train))

NoRet(status) ==
    [status |-> status, train_features |-> <<>>, train_label |-> <<>>,
     test_features |-> <<>>, test_label |-> <<>>, NYU_features |-> <<>>]

\* Lines 139-152 of load_data on the filtered tables: the split, the pops and
\* the return, or the exception; and the state numpy's global generator is
\* left in.
SplitAndReturn(halo_cut, nyu, label_name, train_fraction, seed, entropy, repeat) ==
    LET g     == GlobalSeed(seed, entropy)
        smp   == Sample(halo_cut, train_fraction, SampleRng(seed, g))
        train == smp.rows
        test  == TestRows(halo_cut, train)
    IN  /\ call' = [label_name |-> label_name, train_fraction |-> train_fraction,
                    seed |-> seed]
        /\ IF FracRejected(train_fraction)
           THEN /\ ret' = NoRet("ValueError")
                /\ np_random' = g
           ELSE /\ np_random' = IF seed = None THEN smp.rng ELSE g
                /\ IF label_name \notin ILLUSTRIS_COLUMN_NAMES
                   THEN ret' = NoRet("KeyError")
                   ELSE ret' = [status |-> "ok",
                                train_features |-> PopFeatures(train, label_name),
                                train_label |-> PopLabel(train, label_name),
                                test_features |-> PopFeatures(test, label_name),
                                test_label |-> PopLabel(test, label_name),
                                NYU_features |-> nyu]
        /\ pc' = IF repeat THEN "recalled" ELSE "called"
        /\ UNCHANGED <<iFile, nFile, features, label, dataset, cursor, pass, out>>

\* load_data(label_name, train_fraction, seed), the whole call, for each of the
\* argument triples in args (entropy: what the operating system seeds numpy
\* with when seed is None; repeat: whether the caller has called before).
LoadData(args, repeat) ==
    LET halo_cut == FilteredSim(iFile)
        nyu      == FilteredSurvey(nFile)
    IN  \E a \in args :
            SplitAndReturn(halo_cut, nyu, a.label_name, a.train_fraction, a.seed,
                           a.entropy, repeat)

\* ------------------------------------------------------------ inputs
\* Cell values of Illustris_V3.csv (in 10^10 solar masses) and of NYU.csv (in
\* solar masses); NaN is an empty cell.
StellarValues == {Flt(5, 0)}
WindValues == {Flt(2, 0), Flt(5, 0), Flt(6, 0), NaN}
HaloValues == {Flt(0, 0), Flt(1, 0 - 1)}
SurveyValues ==
    {Flt(5, 0 - 6), Flt(1, 3), Flt(2, 10), Flt(15, 11), Flt(2, 12), NaN}

IllustrisRows ==
    [idx : {0}, SubhaloMassInRad : HaloValues, SubhaloWindMass : WindValues,
     SubhaloMassInRadType4 : StellarValues]
NYURows == [idx : {0}, SubhaloMassInRadType4 : SurveyValues]

\* A file of rows that pass every cut, for the file a specification does not
\* vary.
IllustrisTypical ==
    LET r == [idx |-> 0, SubhaloMassInRad |-> Flt(1, 0 - 1),
              SubhaloWindMass |-> Flt(2, 0), SubhaloMassInRadType4 |-> Flt(5, 0)]
    IN  <<r, r>>
NYUTypical == <<[idx |-> 0, SubhaloMassInRadType4 |-> Flt(2, 10)]>>

\* The files of at most n rows over a set of rows.
Files(rows, n) == UNION {[1..k -> rows] : k \in 0..n}

Seeds == 0..MaxSeed
Fractions == {[num |-> k, den |-> 2] : k \in (0 - 1)..3}
LabelNames == {"SubhaloMassInRad", "SubhaloMassInRadType4", "NoSuchColumn"}

\* The label argument of make_dataset: None, or a Series.
NoLabel == [present |-> FALSE, series |-> <<>>]
Label(series) == [present |-> TRUE, series |-> series]

NoCall == [label_name |-> "", train_fraction |-> [num |-> 0, den |-> 1], seed |-> None]

Idle ==
    /\ np_random = 0
    /\ call = NoCall
    /\ pc = "idle"
    /\ ret = NoRet("none")
    /\ features = <<>>
    /\ label = NoLabel
    /\ dataset = <<>>
    /\ cursor = 0
    /\ pass = 0
    /\ out = <<>>

\* Any simulated file, beside the typical survey file.
Init ==
    /\ iFile \in Files(IllustrisRows, MaxRows)
    /\ nFile = NYUTypical
    /\ Idle

\* Any survey file, beside the typical simulated file.
InitSurvey ==
    /\ iFile = IllustrisTypical
    /\ nFile \in Files(NYURows, MaxSurveyRows)
    /\ Idle

Args(labels, fractions, seeds, entropies) ==
    [label_name : labels, train_fraction : fractions, seed : seeds,
     entropy : entropies]

\* The first call of load_data, with any arguments and a seed.
Call ==
    /\ pc = "idle"
    /\ LoadData(Args(LabelNames, Fractions, Seeds, {0}), FALSE)

\* The first call of load_data without a seed.
CallUnseeded ==
    /\ pc = "idle"
    /\ LoadData(Args(LabelNames, Fractions, {None}, Seeds), FALSE)

\* load_data called again on the same files with the same arguments.
Recall ==
    /\ pc \in {"called", "recalled"}
    /\ LoadData(Args({call.label_name}, {call.train_fraction}, {call.seed},
                     IF call.seed = None THEN Seeds ELSE {0}), TRUE)

Next == Call \/ CallUnseeded \/ Recall

Spec == Init /\ [][Next]_vars

SpecSurvey == InitSurvey /\ [][Next]_vars

\* ------------------------------------------------------- make_dataset
\* dict(features): each column name mapped to the column, a Series of the
\* table's values in row order (a table without rows shows no columns here).
Dict(t) ==
    [c \in (IF Len(t) = 0 THEN {} ELSE Columns(t[1])) |->
        [i \in 1..Len(t) |-> t[i][c]]]

\* The length of the tensors of a dict of columns: their common first dimension.
TensorLen(d) == IF DOMAIN d = {} THEN 0 ELSE Len(d[CHOOSE c \in DOMAIN d : TRUE])

\* Slices that start at the second row.
TensorSlicesSkipFirst(d, lab) ==
    [i \in 1..(IF TensorLen(d) = 0 THEN 0 ELSE TensorLen(d) - 1) |->
        IF lab.present
        THEN <<[c \in DOMAIN d |-> d[c][i + 1]], lab.series[i + 1].val>>
        ELSE <<[c \in DOMAIN d |-> d[c][i + 1]]>>]

\* tf.data.Dataset.from_tensor_slices(inputs): element i is the i-th slice of
\* every tensor of inputs: the mapping of each column name to the column's
\* i-th value, in a pair with the label's i-th value when inputs is the pair
\* (features, label).  An element is the tuple of its parts.
TensorSlices(d, lab) ==
    [i \in 1..TensorLen(d) |->
        IF lab.present
        THEN <<[c \in DOMAIN d |-> d[c][i]], lab.series[i].val>>
        ELSE <<[c \in DOMAIN d |-> d[c][i]]>>]

\* make_dataset(features, label).
MakeDataset ==
    /\ pc = "idle"
    /\ dataset' = TensorSlices(Dict(features), label)
    /\ pc' = "dataset"
    /\ UNCHANGED <<iFile, nFile, np_random, call, ret, features, label, cursor,
                   pass, out>>

\* The consumer starts to iterate the dataset: at first, and again once the
\* previous iteration has reached the end.
MakeIterator ==
    /\ pc = "dataset"
    /\ pass < MaxPasses
    /\ pass = 0 \/ cursor = Len(dataset)
    /\ pass' = pass + 1
    /\ cursor' = 0
    /\ out' = Append(out, <<>>)
    /\ UNCHANGED <<iFile, nFile, np_random, call, ret, features, label, dataset, pc>>

\* The consumer takes the iterator's next element.
GetNext ==
    /\ pc = "dataset"
    /\ pass >= 1
    /\ cursor < Len(dataset)
    /\ cursor' = cursor + 1
    /\ out' = [out EXCEPT ![pass] = Append(@, dataset[cursor + 1])]
    /\ UNCHANGED <<iFile, nFile, np_random, call, ret, features, label, dataset,
                   pc, pass>>

\* Feature tables as load_data returns them (the label column popped, the rows
\* in any order under distinct index labels), and labels for them.
FeatureValues == {Flt(3, 0), NaN}
LabelValues == {Flt(1, 0 - 1), Flt(5, 0 - 1)}
FeatureRows ==
    [idx : 0..(MaxDatasetRows - 1), SubhaloMassInRadType4 : FeatureValues,
     SubhaloWindMass : {Flt(2, 0)}]
FeatureTables ==
    {t \in Files(FeatureRows, MaxDatasetRows) :
        \A i, j \in 1..Len(t) : i # j => t[i].idx # t[j].idx}
LabelsFor(t) ==
    {NoLabel} \cup
    {Label([i \in 1..Len(t) |-> [idx |-> t[i].idx, val |-> v[i]]]) :
        v \in [1..Len(t) -> LabelValues]}

InitDataset ==
    /\ iFile = <<>>
    /\ nFile = <<>>
    /\ np_random = 0
    /\ call = NoCall
    /\ pc = "idle"
    /\ ret = NoRet("none")
    /\ features \in FeatureTables
    /\ label \in LabelsFor(features)
    /\ dataset = <<>>
    /\ cursor = 0
    /\ pass = 0
    /\ out = <<>>

NextDataset == MakeDataset \/ MakeIterator \/ GetNext

SpecDataset == InitDataset /\ [][NextDataset]_vars

\* ------------------------------------------------- claims on load_data
Returned == ret.status = "ok"

\* The value of column c in row i of a returned split, whose label column was
\* popped into label.
ValueOf(feat, lab, i, c) == IF c \in DOMAIN feat[i] THEN feat[i][c] ELSE lab[i].val

\* The positions of a table that hold index label x.
At(t, x) == {k \in 1..Len(t) : t[k].idx = x}

\* C1: Train and Test are disjoint and together hold exactly the rows of the
\* filtered simulated table, each once.
C1_TrainTestPartition ==
    Returned =>
        LET filtered == Index(FilteredSim(iFile))
            train    == Index(ret.train_features)
            test     == Index(ret.test_features)
        IN  /\ train \cap test = {}
            /\ train \cup test = filtered
            /\ Len(ret.train_features) + Len(ret.test_features) = Cardinality(filtered)

C1_Witness ==
    /\ Returned
    /\ Len(ret.train_features) >= 1
    /\ Len(ret.test_features) >= 1

\* C2: every row returned in Train or Test has corrected stellar mass >= 0 and
\* halo mass >= 0.1.
C2_ReturnedRowsPassCuts ==
    Returned =>
        /\ \A i \in 1..Len(ret.train_features) :
              /\ Ge(ValueOf(ret.train_features, ret.train_label, i,
                            "SubhaloMassInRadType4"), StellarCut)
              /\ Ge(ValueOf(ret.train_features, ret.train_label, i,
                            "SubhaloMassInRad"), HaloCut)
        /\ \A i \in 1..Len(ret.test_features) :
              /\ Ge(ValueOf(ret.test_features, ret.test_label, i,
                            "SubhaloMassInRadType4"), StellarCut)
              /\ Ge(ValueOf(ret.test_features, ret.test_label, i,
                            "SubhaloMassInRad"), HaloCut)

\* C3: every row of the returned survey table has converted stellar mass m with
\* 1e-7 <= m < 150.
C3_SurveyRowsInRange ==
    Returned =>
        \A i \in 1..Len(ret.NYU_features) :
            /\ Ge(ret.NYU_features[i].SubhaloMassInRadType4, SurveyFloor)
            /\ Lt(ret.NYU_features[i].SubhaloMassInRadType4, SurveyCeiling)

C8_SurveyExamples ==
    Returned =>
        \A i \in 1..Len(nFile) :
            /\ nFile[i].SubhaloMassInRadType4 = Flt(2, 10) =>
                  \E k \in At(ret.NYU_features, i - 1) :
                      ret.NYU_features[k].SubhaloMassInRadType4 = Flt(2, 0)
            /\ nFile[i].SubhaloMassInRadType4 = Flt(5, 0 - 6) =>
                  At(ret.NYU_features, i - 1) # {}
            /\ nFile[i].SubhaloMassInRadType4 = Flt(2, 12) =>
                  At(ret.NYU_features, i - 1) = {}

\* C8, amended: the thresholds apply after the division by 10^10: raw 2e10 is
\* returned with 2, raw 2e12 (200) is not returned, and raw 5e-6 becomes 5e-16,
\* which is below 1e-7, and is not returned.
C8_SurveyExamplesAmended ==
    Returned =>
        \A i \in 1..Len(nFile) :
            /\ nFile[i].SubhaloMassInRadType4 = Flt(2, 10) =>
                  \E k \in At(ret.NYU_features, i - 1) :
                      ret.NYU_features[k].SubhaloMassInRadType4 = Flt(2, 0)
            /\ nFile[i].SubhaloMassInRadType4 = Flt(5, 0 - 6) =>
                  /\ At(ret.NYU_features, i - 1) = {}
                  /\ ConvertSurvey(nFile)[i].SubhaloMassInRadType4 = Flt(5, 0 - 16)
            /\ nFile[i].SubhaloMassInRadType4 = Flt(2, 12) =>
                  /\ At(ret.NYU_features, i - 1) = {}
                  /\ ConvertSurvey(nFile)[i].SubhaloMassInRadType4 = Flt(2, 2)

C8_Witness ==
    /\ Returned
    /\ \E i \in 1..Len(nFile) : nFile[i].SubhaloMassInRadType4 = Flt(5, 0 - 6)
    /\ \E i \in 1..Len(nFile) : nFile[i].SubhaloMassInRadType4 = Flt(2, 10)
    /\ Len(ret.NYU_features) = 1
    /\ ret.NYU_features[1].SubhaloMassInRadType4 = Flt(2, 0)

\* The row of the filtered simulated table that carries index label x.
SourceRow(x) ==
    LET t == FilteredSim(iFile)
    IN  t[CHOOSE k \in 1..Len(t) : t[k].idx = x]

\* A returned split (its feature table and its label) is what popping
\* label_name out of rows of the filtered table gives: the column is gone from
\* the features, the label is as long as the features, entry i of both is the
\* same source row, the label holds that row's label_name value and the
\* features hold its other columns unchanged.
Aligned(feat, lab) ==
    /\ Len(lab) = Len(feat)
    /\ \A i \in 1..Len(feat) :
          /\ feat[i].idx \in Index(FilteredSim(iFile))
          /\ call.label_name \notin DOMAIN feat[i]
          /\ DOMAIN feat[i] = DOMAIN SourceRow(feat[i].idx) \ {call.label_name}
          /\ lab[i].idx = feat[i].idx
          /\ lab[i].val = SourceRow(feat[i].idx)[call.label_name]
          /\ \A c \in DOMAIN feat[i] : feat[i][c] = SourceRow(feat[i].idx)[c]

\* C6: for Train and for Test, popping label_name removes the column and gives
\* a label sequence aligned with the feature table row by row; the other
\* columns are unchanged.
C6_LabelAligned ==
    Returned =>
        /\ Aligned(ret.train_features, ret.train_label)
        /\ Aligned(ret.test_features, ret.test_label)

\* Train holds two rows, and not in the file's order.
C6_Witness ==
    /\ Returned
    /\ Len(ret.train_features) = 2
    /\ ret.train_features[1].idx > ret.train_features[2].idx
    /\ ret.train_label[1].val # ret.train_label[2].val

\* C5 as stated: a train_fraction outside the open interval (0,1) makes the
\* call fail and return nothing.
C5_FractionOutsideOpenIntervalFails ==
    (pc # "idle" /\ (call.train_fraction.num <= 0
                     \/ call.train_fraction.num >= call.train_fraction.den)) =>
        ret = NoRet("ValueError")

\* C5, amended: a train_fraction below 0 or above 1 makes the call fail with
\* sample's ValueError and return nothing; exactly 0 and exactly 1 are accepted:
\* with 0 Train is empty and Test holds every filtered row, with 1 Train holds
\* every filtered row and Test is empty.
C5_FractionOutsideClosedIntervalFails ==
    pc # "idle" =>
        LET f    == call.train_fraction
            all  == Index(FilteredSim(iFile))
            good == call.label_name \in ILLUSTRIS_COLUMN_NAMES
        IN  /\ (f.num < 0 \/ f.num > f.den) => ret = NoRet("ValueError")
            /\ (f.num = 0 /\ good) =>
                  /\ Returned
                  /\ ret.train_features = <<>>
                  /\ Index(ret.test_features) = all
            /\ (f.num = f.den /\ good) =>
                  /\ Returned
                  /\ Index(ret.train_features) = all
                  /\ ret.test_features = <<>>

\* A call with train_fraction 1 has returned every filtered row in Train.
C5_Witness ==
    /\ Returned
    /\ call.train_fraction.num = call.train_fraction.den
    /\ Len(ret.train_features) = 2
    /\ ret.test_features = <<>>

\* C9: a call repeated on the same files with the same arguments and a seed
\* returns the same Train and Test.
C9_SameSeedSameSplit ==
    [][(Returned /\ call.seed # None /\ call' = call) =>
          /\ ret'.status = "ok"
          /\ ret'.train_features = ret.train_features
          /\ ret'.train_label = ret.train_label
          /\ ret'.test_features = ret.test_features
          /\ ret'.test_label = ret.test_label]_vars

\* A seeded call has been repeated and split two rows between Train and Test.
C9_Witness ==
    /\ pc = "recalled"
    /\ Returned
    /\ call.seed # None
    /\ Len(ret.train_features) = 1
    /\ Len(ret.test_features) = 1

Element(i) ==
    LET mapping == [c \in Columns(features[i]) |-> features[i][c]]
    IN  IF label.present THEN <<mapping, label.series[i].val>> ELSE <<mapping>>

\* C7: the dataset of a table of N rows holds N elements in row order, element
\* i being row i's column mapping (paired with label i if a label is given);
\* every iteration yields these elements in this order, a second one too.
C7_DatasetElements ==
    pc = "dataset" =>
        /\ Len(dataset) = Len(features)
        /\ \A i \in 1..Len(features) : dataset[i] = Element(i)
        /\ \A p \in 1..Len(out) :
              /\ Len(out[p]) = IF p < pass THEN Len(features) ELSE cursor
              /\ \A i \in 1..Len(out[p]) : out[p][i] = Element(i)

\* A second iteration over two rows with a label has reached the end.
C7_Witness ==
    /\ pc = "dataset"
    /\ pass = 2
    /\ Len(features) = 2
    /\ features[1].idx > features[2].idx
    /\ features[1].SubhaloMassInRadType4 # features[2].SubhaloMassInRadType4
    /\ label.present
    /\ label.series[1].val # label.series[2].val
    /\ cursor = 2
    /\ Len(out[2]) = 2
====
